---- MODULE Spec2Model ----
(***************************************************************************)
(* Model of the listing API route handlers of the inventory application:   *)
(*   POST  (listing ingestion: concurrent image writes, JSON decoding,     *)
(*          document save)                                                 *)
(*   GET   (listing search: category check, filter and sort parsing,       *)
(*          aggregation, pagination summary)                               *)
(* Strings are sequences of tokens, so that split, includes, replace and   *)
(* concatenation are computed rather than assumed.                         *)
(***************************************************************************)
EXTENDS Integers, Sequences, FiniteSets, TLC

(* ------------------------------ bounds -------------------------------- *)
\* largest value of Date.now() the model reaches
MaxClock == 1
\* most image attachments of the concurrent POST requests together
MaxFiles == 3
\* longest referer pathname, in tokens
MaxPathLen == 3
\* longest page or limit parameter, in characters
MaxNumLen == 2
\* longest details parameter, in tokens
MaxDetailsLen == 4
\* longest sortBy parameter, in tokens
MaxSortLen == 3

\* parseInt(searchParams.get("limit") || "24", 10)
DefaultLimitText == <<"2", "4">>
\* the page size of a request that gives none
DefaultLimit == 24

\* the concurrent POST requests
Reqs == {"r1", "r2"}
\* original names of the attached files
FileNames == {"a.jpg", "b.jpg"}

VARIABLES
  clock,      \* Date.now()
  files,      \* the upload directory: set of [name, data], one entry per name
  cars,       \* the Car collection: set of saved documents
  ppc,        \* POST: position of each request's handler
  uploaded,   \* POST: per request, the {filename, path} each write task returns
  orig,       \* POST: per request, the original name of each attachment
  wstate,     \* POST: per request, the state of each write task
  saveCalled, \* POST: per request, whether carDocument.save() was called
  pstatus,    \* POST: per request, the response status (0: no response yet)
  perr,       \* POST: per request, the error the catch block received
  pbody,      \* POST: per request, the images of the car in the 200 response
  ordering,   \* the Ordering record named "CarDetail"
  gpc,        \* GET: position of the handler
  greq,       \* GET: the request (referer and query parameters)
  gparsed,    \* GET: the handler's locals once the parameters are parsed
  gargs,      \* GET: the arguments handed to createCarPipeline
  gmatched,   \* GET: the listings the aggregation's filter stages matched
  aggCalls,   \* GET: how many times Car.aggregate was called
  orderLookups, \* GET: how many times Ordering.findOne was called
  gstatus,    \* GET: the response status (0: no response yet)
  gbody       \* GET: the response body

postOnly == <<clock, ppc, uploaded, orig, wstate, saveCalled, pstatus, perr,
              pbody>>
getOnly == <<gpc, greq, gparsed, gargs, gmatched, aggCalls, orderLookups,
             gstatus, gbody>>
stores == <<files, cars, ordering>>
vars == <<stores, postOnly, getOnly>>

(* --------------------------- POST: helpers ---------------------------- *)
SeqsUpTo(S, n) == UNION {[1..k -> S] : k \in 0..n}

\* `${Date.now()}-${file.name}`
FileNameOf(ts, name) == <<ts, "-", name>>

\* "api/uploads/" + fileName
PathOf(fileName) == <<"api/uploads/">> \o fileName

\* the value each write task returns
UploadedEntry(ts, name) ==
  [filename |-> FileNameOf(ts, name), path |-> PathOf(FileNameOf(ts, name))]

\* Date.now() read once per attachment while files.map runs: never decreasing
Timestamps(k) ==
  {ts \in [1..k -> clock..MaxClock] :
     \A i \in 1..k : \A j \in 1..k : i < j => ts[i] <= ts[j]}

\* fs.promises.writeFile(filePath, data): creates or replaces the file
WriteFile(store, fileName, data) ==
  {f \in store : f.name # fileName} \cup {[name |-> fileName, data |-> data]}

JsonFields == {"details", "features", "videos", "pages", "sellerNotes"}
FieldStates == {"valid", "invalid", "missing"}

\* the JSON form fields of a request, each valid, malformed or absent
Forms == [JsonFields -> FieldStates]

\* JSON.parse(formData.get(x)) and the .map over its result
FieldThrows(x, st) ==
  CASE st = "invalid" -> TRUE
    [] st = "missing" -> x \in {"details", "features", "sellerNotes"}
    [] OTHER -> FALSE

\* whether decoding the form's fields and mapping them to identifiers throws
FormThrows(f) == \E x \in JsonFields : FieldThrows(x, f[x])

\* the outcomes of decoding, over every form a request can carry
ParseOutcomes == {FormThrows(f) : f \in Forms}

\* attachments of the requests whose handler has started its writes
RECURSIVE Attached(_)
Attached(S) ==
  IF S = {} THEN 0
  ELSE LET r == CHOOSE x \in S : TRUE IN Len(orig[r]) + Attached(S \ {r})

\* the join as Promise.allSettled would make it: it waits for every write task
\* and continues whether or not one rejected
AllSettled(r) == \A i \in DOMAIN wstate[r] : wstate[r][i] # "pending"

\* Promise.all resolves when every write task has resolved
AllWritten(r) == \A i \in DOMAIN wstate[r] : wstate[r][i] = "written"

\* Promise.all rejects as soon as one write task has rejected
AnyFailed(r) == \E i \in DOMAIN wstate[r] : wstate[r][i] = "failed"

Respond(r, code, err) ==
  /\ pstatus' = [pstatus EXCEPT ![r] = code]
  /\ perr' = [perr EXCEPT ![r] = err]
  /\ ppc' = [ppc EXCEPT ![r] = "done"]

(* ---------------------------- GET: strings ---------------------------- *)
\* a query parameter or header: searchParams.get returns null when absent
Absent == [has |-> FALSE, s |-> <<>>]
Str(s) == [has |-> TRUE, s |-> s]

\* JavaScript truthiness of a string-or-null: null and "" are falsy
Truthy(p) == p.has /\ p.s # <<>>

\* p || dflt
OrElse(p, dflt) == IF Truthy(p) THEN p.s ELSE dflt

\* s.includes(tok), for a token that no other token contains a part of
Includes(s, tok) == \E i \in DOMAIN s : s[i] = tok

\* the index of the first separator in s, 0 when there is none
FirstIndex(s, sep) ==
  IF Includes(s, sep)
    THEN CHOOSE i \in DOMAIN s :
           s[i] = sep /\ \A j \in 1..(i - 1) : s[j] # sep
    ELSE 0

\* s.split(sep): the pieces between separators, empty pieces included
RECURSIVE Split(_, _)
Split(s, sep) ==
  LET i == FirstIndex(s, sep) IN
    IF i = 0 THEN <<s>>
    ELSE <<SubSeq(s, 1, i - 1)>> \o Split(SubSeq(s, i + 1, Len(s)), sep)

\* pathname.replace(/\/$/g, "")
StripTrailingSlash(s) ==
  IF Len(s) > 0 /\ s[Len(s)] = "/" THEN SubSeq(s, 1, Len(s) - 1) ELSE s

\* pathname.replace(/^\//, "")
StripLeadingSlash(s) ==
  IF Len(s) > 0 /\ s[1] = "/" THEN Tail(s) ELSE s

(* ---------------------------- GET: numbers ---------------------------- *)
\* JavaScript numbers: an integer, NaN, or an infinity (v is its sign)
Num(n) == [k |-> "num", v |-> n]
NaN == [k |-> "nan", v |-> 0]
PosInf == [k |-> "inf", v |-> 1]
NegInf == [k |-> "inf", v |-> -1]

Digits == {"0", "1", "2", "3", "4", "5", "6", "7", "8", "9"}
DigitVal(c) ==
  CASE c = "0" -> 0 [] c = "1" -> 1 [] c = "2" -> 2 [] c = "3" -> 3
    [] c = "4" -> 4 [] c = "5" -> 5 [] c = "6" -> 6 [] c = "7" -> 7
    [] c = "8" -> 8 [] c = "9" -> 9

\* the length of the longest prefix of s made of digits
RECURSIVE DigitPrefix(_)
DigitPrefix(s) ==
  IF s = <<>> \/ Head(s) \notin Digits THEN 0 ELSE 1 + DigitPrefix(Tail(s))

\* the value of a sequence of digits, base 10
RECURSIVE DigitsValue(_)
DigitsValue(s) ==
  IF s = <<>> THEN 0
  ELSE 10 * DigitsValue(SubSeq(s, 1, Len(s) - 1)) + DigitVal(s[Len(s)])

\* parseInt(s, 10): an optional sign, then the longest run of digits; NaN
\* when there is no digit
ParseInt(s) ==
  LET neg == s # <<>> /\ Head(s) = "-"
      body == IF neg THEN Tail(s) ELSE s
      n == DigitPrefix(body)
      val == DigitsValue(SubSeq(body, 1, n))
  IN IF n = 0 THEN NaN ELSE Num(IF neg THEN 0 - val ELSE val)

\* parseFloat(s), on the strings the model draws (no fraction, no exponent)
ParseFloat(s) == IF s = <<"Infinity">> THEN PosInf ELSE ParseInt(s)

\* x || dflt for a number: 0 and NaN are falsy
NumOrElse(x, dflt) ==
  IF x.k = "nan" \/ (x.k = "num" /\ x.v = 0) THEN Num(dflt) ELSE x

\* a - b and a * b on the numbers parseInt returns
JsSub(a, b) == IF a.k = "nan" \/ b.k = "nan" THEN NaN ELSE Num(a.v - b.v)
JsMul(a, b) == IF a.k = "nan" \/ b.k = "nan" THEN NaN ELSE Num(a.v * b.v)

\* Math.ceil(a / b) for integers a and b # 0
CeilQuot(a, b) == IF b > 0 THEN 0 - ((0 - a) \div b) ELSE 0 - (a \div (0 - b))

\* Math.ceil(totalCars / limit)
JsCeilDiv(a, b) ==
  CASE a.k = "nan" \/ b.k = "nan" -> NaN
    [] a.k = "num" /\ b.k = "num" /\ b.v = 0 ->
         IF a.v = 0 THEN NaN ELSE IF a.v > 0 THEN PosInf ELSE NegInf
    [] OTHER -> Num(CeilQuot(a.v, b.v))

(* ------------------------ GET: request parsing ------------------------ *)
\* Object.keys(titleMap): the keys that name a category, one written as a
\* page path and one as a bare name
TitleMapKeys == {<<"/", "cars">>, <<"vans">>}

\* the category test left out: no path is answered 400
CategoryUnchecked(pathname) == FALSE

\* the test that answers 400: the path neither mentions inventory nor is a
\* key of titleMap
CategoryRejected(pathname) ==
  ~ Includes(pathname, "inventory") /\ pathname \notin TitleMapKeys

\* pathname.includes("inventory") ? "inventory" : pathname.replace(/^\//, "")
Category(pathname) ==
  IF Includes(pathname, "inventory") THEN <<"inventory">>
  ELSE StripLeadingSlash(pathname)

\* selectedFeatures.split(",")
FeaturesFilter(p) == IF Truthy(p) THEN Split(p.s, ",") ELSE <<>>

\* one group of the details parameter: const [name, values] = detail.split(":")
DetailEntry(detail) ==
  LET parts == Split(detail, ":")
      values == IF Len(parts) >= 2 THEN parts[2] ELSE <<>>
  IN [name |-> parts[1],
      values |-> IF values # <<>> THEN Split(values, ",") ELSE <<>>]

\* the filter step left out: every parsed group is kept
KeepAll(entries) == entries

\* .filter(({ values }) => values.length > 0)
KeepNonEmpty(entries) == SelectSeq(entries, LAMBDA e : Len(e.values) > 0)

\* detailsParam.split(";").map(...).filter(...)
DetailsFilter(p) ==
  IF Truthy(p)
    THEN LET groups == Split(p.s, ";")
         IN KeepNonEmpty([i \in DOMAIN groups |-> DetailEntry(groups[i])])
    ELSE <<>>

\* sortFieldMap[name]: the own properties of the object literal, and the
\* properties every object inherits from Object.prototype ("constructor"
\* stands for them), whose values are functions: truthy, and turned into a
\* string when used as a key
SortFieldMap(name) ==
  CASE name = <<"price">> -> [found |-> TRUE, key |-> "numericPrice"]
    [] name = <<"year">> -> [found |-> TRUE, key |-> "numericYear"]
    [] name = <<"mileage">> -> [found |-> TRUE, key |-> "numericMileage"]
    [] name = <<"size">> -> [found |-> TRUE, key |-> "numericSize"]
    [] name = <<"weight">> -> [found |-> TRUE, key |-> "numericWeight"]
    [] name = <<"constructor">> ->
         [found |-> TRUE, key |-> "function Object() { [native code] }"]
    [] OTHER -> [found |-> FALSE, key |-> ""]

\* one element of sortBy: const [name, order] = sort.split(":")
SortEntry(sort) ==
  LET parts == Split(sort, ":")
  IN [name |-> parts[1],
      order |-> IF Len(parts) >= 2 /\ parts[2] = <<"asc">> THEN 1 ELSE -1]

\* obj[key] = order on an object kept as its list of <<key, value>> in
\* insertion order: an existing key keeps its place
SetKey(obj, key, order) ==
  IF \E i \in DOMAIN obj : obj[i][1] = key
    THEN [i \in DOMAIN obj |->
            IF obj[i][1] = key THEN <<key, order>> ELSE obj[i]]
    ELSE Append(obj, <<key, order>>)

\* sortByFilter.forEach(...) over the entries from the n-th on
RECURSIVE ApplySort(_, _)
ApplySort(entries, stage) ==
  IF entries = <<>> THEN stage
  ELSE LET e == Head(entries)
           m == SortFieldMap(e.name)
       IN ApplySort(Tail(entries),
                    IF m.found THEN SetKey(stage, m.key, e.order) ELSE stage)

DefaultSort == <<<<"createdAt", -1>>>>

\* the sort stage: the default, replaced by the mapped fields of sortBy when
\* the parameter is given, and the default again when none was mapped
SortStage(p) ==
  LET parts == Split(p.s, ",")
      stage == IF Truthy(p)
                 THEN ApplySort([i \in DOMAIN parts |-> SortEntry(parts[i])],
                                <<>>)
                 ELSE DefaultSort
  IN IF Len(stage) = 0 THEN DefaultSort ELSE stage

(* --------------------------- GET: requests ---------------------------- *)
\* the referer header: absent, not a URL, or a URL with this pathname
PathTokens == {"/", "inventory", "cars", "vans", "x"}
Pathnames ==
  {p \in SeqsUpTo(PathTokens, MaxPathLen) : p # <<>> /\ p[1] = "/"}
Referers ==
  {[kind |-> "absent", pathname |-> <<>>],
   [kind |-> "invalid", pathname |-> <<>>]}
  \cup {[kind |-> "url", pathname |-> p] : p \in Pathnames}

\* new URL(referer || "http://localhost:3000").pathname
RefererPath(ref) == IF ref.kind = "absent" THEN <<"/">> ELSE ref.pathname

Params(tokens, n) == {Absent} \cup {Str(s) : s \in SeqsUpTo(tokens, n)}

NumTokens == {"0", "2", "-", "x"}
DetailTokens == {"c", "r", ":", ",", ";"}
SortTokens == {"price", "year", "foo", "constructor", "asc", ":", ","}

InventoryReferer == [kind |-> "url", pathname |-> <<"/", "inventory">>]
UnknownReferer == [kind |-> "url", pathname |-> <<"/", "x">>]

PlainRequest ==
  [referer |-> InventoryReferer, page |-> Absent, limit |-> Absent,
   search |-> Absent, details |-> Absent, features |-> Absent,
   sortBy |-> Absent, minPrice |-> Absent, maxPrice |-> Absent]

\* the requests the model draws: each parameter over its whole bounded range,
\* the others at their defaults
GetRequests ==
  {[PlainRequest EXCEPT !.referer = x] : x \in Referers}
  \cup {[PlainRequest EXCEPT !.referer = x, !.page = p, !.limit = l] :
          x \in {InventoryReferer, UnknownReferer},
          p \in Params(NumTokens, MaxNumLen),
          l \in Params(NumTokens, MaxNumLen)}
  \cup {[PlainRequest EXCEPT !.details = d] :
          d \in Params(DetailTokens, MaxDetailsLen)}
  \cup {[PlainRequest EXCEPT !.sortBy = o] :
          o \in Params(SortTokens, MaxSortLen)}
  \cup {[PlainRequest EXCEPT !.features = f, !.search = q, !.minPrice = lo,
                             !.maxPrice = hi] :
          f \in {Absent, Str(<<"f">>), Str(<<"f", ",", "g">>)},
          q \in {Absent, Str(<<"q">>)},
          lo \in {Absent, Str(<<"1">>)},
          hi \in {Absent, Str(<<"2">>), Str(<<"x">>)}}

NoParsed ==
  [page |-> NaN, limit |-> NaN, pathname |-> <<>>, search |-> <<>>,
   detailsFilter |-> <<>>, featuresFilter |-> <<>>, sortStage |-> <<>>]

NoArgs ==
  [built |-> FALSE, pathname |-> <<>>, search |-> <<>>,
   detailsFilter |-> <<>>, featuresFilter |-> <<>>, sortStage |-> <<>>,
   skip |-> NaN, limit |-> NaN, carDetailOrderIds |-> <<>>,
   minPrice |-> NaN, maxPrice |-> NaN]

Body(kind, data, currentPage, totalPages, limit, totalItems, priceRange) ==
  [kind |-> kind, data |-> data, currentPage |-> currentPage,
   totalPages |-> totalPages, limit |-> limit, totalItems |-> totalItems,
   priceRange |-> priceRange]

NoRange == [min |-> 0, max |-> 0]
NoBody == Body("none", <<>>, NaN, NaN, NaN, 0, NoRange)
ErrorBody == Body("error", <<>>, NaN, NaN, NaN, 0, NoRange)

(* ------------------------- GET: the aggregation ----------------------- *)
\* the price each request's listing carries, as its derived number
ReqPrice == [r \in Reqs |-> IF r = "r1" THEN 100 ELSE 250]

Doc(r, images) == [req |-> r, images |-> images, price |-> ReqPrice[r]]

\* a set of listings as a list, by ascending price
RECURSIVE Listed(_)
Listed(S) ==
  IF S = {} THEN <<>>
  ELSE LET c == CHOOSE x \in S : \A y \in S : x.price <= y.price
       IN <<c>> \o Listed(S \ {c})

\* the $skip and $limit stages over the sorted matches
Page(S, skip, limit) ==
  IF skip.k = "num" /\ limit.k = "num" /\ skip.v >= 0 /\ limit.v > 0
    THEN LET l == Listed(S)
             last == IF skip.v + limit.v < Len(l) THEN skip.v + limit.v
                     ELSE Len(l)
         IN SubSeq(l, skip.v + 1, last)
    ELSE <<>>

\* the min and max derived price over all the matches
PriceRange(S) ==
  [min |-> (CHOOSE x \in S : \A y \in S : x.price <= y.price).price,
   max |-> (CHOOSE x \in S : \A y \in S : x.price >= y.price).price]

\* what Car.aggregate(pipeline) returns for the matches S: one row with the
\* page, the count and the price range; for no match, that row with zero
\* counts or no row at all
AggregateResults(S, args) ==
  IF S = {}
    THEN {[row |-> FALSE, cars |-> <<>>, totalCars |-> 0,
           priceRange |-> NoRange],
          [row |-> TRUE, cars |-> <<>>, totalCars |-> 0,
           priceRange |-> NoRange]}
    ELSE {[row |-> TRUE, cars |-> Page(S, args.skip, args.limit),
           totalCars |-> Cardinality(S), priceRange |-> PriceRange(S)]}

\* const { cars, totalCars, priceRange } = result || { cars: [], ... }
ResultOrDefault(res) ==
  IF res.row THEN res
  ELSE [row |-> FALSE, cars |-> <<>>, totalCars |-> 0, priceRange |-> NoRange]

\* the stored listings and files a GET request finds
SeedImages == <<UploadedEntry(0, "a.jpg")>>
SeedCars == {Doc("r1", SeedImages), Doc("r2", <<>>)}
SeedFiles == {[name |-> FileNameOf(0, "a.jpg"), data |-> <<"r1", 1>>]}

NoOrdering == [present |-> FALSE, ids |-> <<>>]
SeedOrdering == [present |-> TRUE, ids |-> <<"d2", "d1">>]

\* carDetailOrdering?.ids ?? []
OrderIds(o) == IF o.present THEN o.ids ELSE <<>>

(* ------------------------------- Init --------------------------------- *)
InitPost ==
  /\ clock = 0
  /\ files = {}
  /\ cars = {}
  /\ ppc = [r \in Reqs |-> "idle"]
  /\ uploaded = [r \in Reqs |-> <<>>]
  /\ orig = [r \in Reqs |-> <<>>]
  /\ wstate = [r \in Reqs |-> <<>>]
  /\ saveCalled = [r \in Reqs |-> FALSE]
  /\ pstatus = [r \in Reqs |-> 0]
  /\ perr = [r \in Reqs |-> "none"]
  /\ pbody = [r \in Reqs |-> <<>>]
  /\ ordering = NoOrdering
  /\ gpc = "idle"
  /\ greq = PlainRequest
  /\ gparsed = NoParsed
  /\ gargs = NoArgs
  /\ gmatched = {}
  /\ aggCalls = 0
  /\ orderLookups = 0
  /\ gstatus = 0
  /\ gbody = NoBody

(* --------------------------- POST: actions ---------------------------- *)
\* connectToDatabase(), request.formData() or fs.mkdirSync throws
PostConnectFail(r) ==
  /\ ppc[r] = "idle"
  /\ Respond(r, 500, "connect")
  /\ UNCHANGED <<clock, files, cars, uploaded, orig, wstate,
                 saveCalled, pbody>>
  /\ UNCHANGED <<ordering, getOnly>>

\* files.map(...) names every attachment and starts its write task
PostStartWrites(r) ==
  /\ ppc[r] = "idle"
  /\ \E ns \in SeqsUpTo(FileNames, MaxFiles - Attached(Reqs)) :
       \E ts \in Timestamps(Len(ns)) :
         /\ orig' = [orig EXCEPT ![r] = ns]
         /\ uploaded' = [uploaded EXCEPT ![r] =
                           [i \in 1..Len(ns) |-> UploadedEntry(ts[i], ns[i])]]
         /\ wstate' = [wstate EXCEPT ![r] = [i \in 1..Len(ns) |-> "pending"]]
         /\ clock' = IF Len(ns) = 0 THEN clock ELSE ts[Len(ns)]
  /\ ppc' = [ppc EXCEPT ![r] = "writing"]
  /\ UNCHANGED <<files, cars, saveCalled, pstatus, perr, pbody>>
  /\ UNCHANGED <<ordering, getOnly>>

\* one write task: writeFile resolves
WriteOk(r, i) ==
  /\ i \in DOMAIN wstate[r]
  /\ wstate[r][i] = "pending"
  /\ files' = WriteFile(files, uploaded[r][i].filename, <<r, i>>)
  /\ wstate' = [wstate EXCEPT ![r][i] = "written"]
  /\ UNCHANGED <<clock, cars, ppc, uploaded, orig, saveCalled,
                 pstatus, perr, pbody>>
  /\ UNCHANGED <<ordering, getOnly>>

\* one write task: file.arrayBuffer() or writeFile rejects
WriteFail(r, i) ==
  /\ i \in DOMAIN wstate[r]
  /\ wstate[r][i] = "pending"
  /\ wstate' = [wstate EXCEPT ![r][i] = "failed"]
  /\ UNCHANGED <<clock, files, cars, ppc, uploaded, orig, saveCalled,
                 pstatus, perr, pbody>>
  /\ UNCHANGED <<ordering, getOnly>>

\* await Promise.all(...) throws into the catch block
PostJoinFail(r) ==
  /\ ppc[r] = "writing"
  /\ AnyFailed(r)
  /\ Respond(r, 500, "write")
  /\ UNCHANGED <<clock, files, cars, uploaded, orig, wstate,
                 saveCalled, pbody>>
  /\ UNCHANGED <<ordering, getOnly>>

\* await Promise.all(...) returns; the JSON fields are decoded, the document
\* is constructed and carDocument.save() is called
PostParse(r) ==
  /\ ppc[r] = "writing"
  /\ AllWritten(r)
  /\ \E throws \in ParseOutcomes :
       IF throws
         THEN /\ Respond(r, 500, "json")
              /\ UNCHANGED saveCalled
         ELSE /\ ppc' = [ppc EXCEPT ![r] = "saving"]
              /\ saveCalled' = [saveCalled EXCEPT ![r] = TRUE]
              /\ UNCHANGED <<pstatus, perr>>
  /\ UNCHANGED <<clock, files, cars, uploaded, orig, wstate, pbody>>
  /\ UNCHANGED <<ordering, getOnly>>

\* carDocument.save() resolves
PostSaveOk(r) ==
  /\ ppc[r] = "saving"
  /\ cars' = cars \cup {Doc(r, uploaded[r])}
  /\ pbody' = [pbody EXCEPT ![r] = uploaded[r]]
  /\ Respond(r, 200, "none")
  /\ UNCHANGED <<clock, files, uploaded, orig, wstate, saveCalled>>
  /\ UNCHANGED <<ordering, getOnly>>

\* carDocument.save() rejects
PostSaveFail(r) ==
  /\ ppc[r] = "saving"
  /\ Respond(r, 500, "save")
  /\ UNCHANGED <<clock, files, cars, uploaded, orig, wstate,
                 saveCalled, pbody>>
  /\ UNCHANGED <<ordering, getOnly>>

NextPost ==
  \/ \E r \in Reqs : PostConnectFail(r)
  \/ \E r \in Reqs : PostStartWrites(r)
  \/ \E r \in Reqs : \E i \in 1..MaxFiles : WriteOk(r, i)
  \/ \E r \in Reqs : \E i \in 1..MaxFiles : WriteFail(r, i)
  \/ \E r \in Reqs : PostJoinFail(r)
  \/ \E r \in Reqs : PostParse(r)
  \/ \E r \in Reqs : PostSaveOk(r)
  \/ \E r \in Reqs : PostSaveFail(r)

SpecPost == InitPost /\ [][NextPost]_vars

(* --------------------------- POST: claims ----------------------------- *)
\* the files in the upload directory that hold bytes of request r
FilesOf(r) == {f \in files : f.data[1] = r}

\* C1: a finished POST has either persisted the document and every attached
\* image (200) or persisted neither the document nor any image (500).
C1_NoPartialSuccess ==
  \A r \in Reqs :
    pstatus[r] # 0 =>
      \/ /\ pstatus[r] = 200
         /\ \E c \in cars : c.req = r
         /\ \A i \in DOMAIN uploaded[r] :
              [name |-> uploaded[r][i].filename, data |-> <<r, i>>] \in files
      \/ /\ pstatus[r] = 500
         /\ ~ \E c \in cars : c.req = r
         /\ FilesOf(r) = {}

\* C2: carDocument.save() is called only once every image write of the
\* request has succeeded; if one write failed, save is never called, no
\* listing of the request is persisted and the response, once sent, is 500.
C2_SaveAfterAllWrites ==
  \A r \in Reqs :
    /\ saveCalled[r] =>
         \A i \in DOMAIN wstate[r] : wstate[r][i] = "written"
    /\ (\E i \in DOMAIN wstate[r] : wstate[r][i] = "failed") =>
         /\ ~ saveCalled[r]
         /\ ~ \E c \in cars : c.req = r
         /\ pstatus[r] \in {0, 500}
         /\ ppc[r] # "saving"

\* a request answered 500 with one write failed and another one written
C2_Witness ==
  \E r \in Reqs :
    /\ pstatus[r] = 500
    /\ \E i \in DOMAIN wstate[r] : wstate[r][i] = "failed"
    /\ \E i \in DOMAIN wstate[r] : wstate[r][i] = "written"

\* the stored names of the images of the listing returned to request r
StoredNames(r) == {pbody[r][i].filename : i \in DOMAIN pbody[r]}

\* C3: a successful POST with k attachments returns k images with non-empty
\* filename and path and persists k distinct files; stored names collide
\* neither within a request nor between requests.
C3_DistinctFiles ==
  \A r \in Reqs :
    pstatus[r] = 200 =>
      /\ Len(pbody[r]) = Len(orig[r])
      /\ \A i \in DOMAIN pbody[r] :
           pbody[r][i].filename # <<>> /\ pbody[r][i].path # <<>>
      /\ Cardinality(StoredNames(r)) = Len(orig[r])
      /\ Cardinality(FilesOf(r)) = Len(orig[r])
      /\ \A q \in Reqs \ {r} :
           pstatus[q] = 200 => StoredNames(q) \cap StoredNames(r) = {}

\* C4 (POST): a request whose JSON fields cannot be decoded is answered with
\* a client error (4xx).
C4_MalformedIsClientError ==
  \A r \in Reqs : perr[r] = "json" => pstatus[r] \in 400..499

(* ---------------------------- GET: actions ---------------------------- *)
GetIdle ==
  /\ gpc = "idle"
  /\ greq = PlainRequest
  /\ gparsed = NoParsed
  /\ gargs = NoArgs
  /\ gmatched = {}
  /\ aggCalls = 0
  /\ orderLookups = 0
  /\ gstatus = 0
  /\ gbody = NoBody

InitGet ==
  /\ clock = 0
  /\ files = SeedFiles
  /\ cars = SeedCars
  /\ ordering \in {NoOrdering, SeedOrdering}
  /\ ppc = [r \in Reqs |-> "idle"]
  /\ uploaded = [r \in Reqs |-> <<>>]
  /\ orig = [r \in Reqs |-> <<>>]
  /\ wstate = [r \in Reqs |-> <<>>]
  /\ saveCalled = [r \in Reqs |-> FALSE]
  /\ pstatus = [r \in Reqs |-> 0]
  /\ perr = [r \in Reqs |-> "none"]
  /\ pbody = [r \in Reqs |-> <<>>]
  /\ GetIdle

\* the catch block as a retrying handler would have it: the query is issued
\* again
CatchGetRetry ==
  /\ gpc' = "aggregate"
  /\ aggCalls' = aggCalls + 1
  /\ UNCHANGED <<gstatus, gbody>>

\* the catch block: log and answer 500
CatchGet ==
  /\ gpc' = "done"
  /\ gstatus' = 500
  /\ gbody' = ErrorBody
  /\ UNCHANGED aggCalls

\* connectToDatabase() throws
GetConnectFail ==
  /\ gpc = "idle"
  /\ CatchGet
  /\ UNCHANGED <<greq, gparsed, gargs, gmatched, orderLookups>>
  /\ UNCHANGED <<stores, postOnly>>

\* the handler from the URL parsing to the call of Ordering.findOne
GetParse ==
  /\ gpc = "idle"
  /\ \E q \in GetRequests :
       LET pathname == StripTrailingSlash(RefererPath(q.referer))
           page == ParseInt(OrElse(q.page, <<"1">>))
           limit == ParseInt(OrElse(q.limit, DefaultLimitText))
       IN /\ greq' = q
          /\ CASE q.referer.kind = "invalid" ->
                    /\ CatchGet
                    /\ UNCHANGED <<gparsed, orderLookups>>
               [] q.referer.kind # "invalid" /\ CategoryRejected(pathname) ->
                    /\ gpc' = "done"
                    /\ gstatus' = 400
                    /\ gbody' = Body("rejected", <<>>, NumOrElse(page, 1),
                                     Num(0), NumOrElse(limit, 10), 0, NoRange)
                    /\ gparsed' = [NoParsed EXCEPT !.page = page,
                                                   !.limit = limit,
                                                   !.pathname = pathname]
                    /\ UNCHANGED <<orderLookups, aggCalls>>
               [] OTHER ->
                    /\ gpc' = "lookup"
                    /\ gparsed' =
                         [page |-> page, limit |-> limit,
                          pathname |-> Category(pathname),
                          search |-> OrElse(q.search, <<>>),
                          detailsFilter |-> DetailsFilter(q.details),
                          featuresFilter |-> FeaturesFilter(q.features),
                          sortStage |-> SortStage(q.sortBy)]
                    /\ orderLookups' = orderLookups + 1
                    /\ UNCHANGED <<gstatus, gbody, aggCalls>>
  /\ UNCHANGED <<gargs, gmatched>>
  /\ UNCHANGED <<stores, postOnly>>

\* Ordering.findOne rejects
GetOrderingFail ==
  /\ gpc = "lookup"
  /\ CatchGet
  /\ UNCHANGED <<greq, gparsed, gargs, gmatched, orderLookups>>
  /\ UNCHANGED <<stores, postOnly>>

\* Ordering.findOne resolves; the pipeline is built and Car.aggregate called
GetBuildPipeline ==
  /\ gpc = "lookup"
  /\ gargs' =
       [built |-> TRUE, pathname |-> gparsed.pathname,
        search |-> gparsed.search,
        detailsFilter |-> gparsed.detailsFilter,
        featuresFilter |-> gparsed.featuresFilter,
        sortStage |-> gparsed.sortStage,
        skip |-> JsMul(JsSub(gparsed.page, Num(1)), gparsed.limit),
        limit |-> gparsed.limit,
        carDetailOrderIds |-> OrderIds(ordering),
        minPrice |-> ParseFloat(OrElse(greq.minPrice, <<"0">>)),
        maxPrice |-> ParseFloat(OrElse(greq.maxPrice, <<"Infinity">>))]
  /\ aggCalls' = aggCalls + 1
  /\ gpc' = "aggregate"
  /\ UNCHANGED <<greq, gparsed, gmatched, orderLookups, gstatus, gbody>>
  /\ UNCHANGED <<stores, postOnly>>

\* Car.aggregate rejects
GetAggregateFail ==
  /\ gpc = "aggregate"
  /\ CatchGet
  /\ UNCHANGED <<greq, gparsed, gargs, gmatched, orderLookups>>
  /\ UNCHANGED <<stores, postOnly>>

\* Car.aggregate resolves; the pagination summary is computed and sent
GetRespond ==
  /\ gpc = "aggregate"
  /\ \E S \in SUBSET cars :
       \E res \in AggregateResults(S, gargs) :
         LET r == ResultOrDefault(res)
         IN /\ gmatched' = S
            /\ gbody' = Body("page", r.cars, gparsed.page,
                             JsCeilDiv(Num(r.totalCars), gparsed.limit),
                             gparsed.limit, r.totalCars, r.priceRange)
  /\ gstatus' = 200
  /\ gpc' = "done"
  /\ UNCHANGED <<greq, gparsed, gargs, aggCalls, orderLookups>>
  /\ UNCHANGED <<stores, postOnly>>

NextGet ==
  \/ GetConnectFail
  \/ GetParse
  \/ GetOrderingFail
  \/ GetBuildPipeline
  \/ GetAggregateFail
  \/ GetRespond

SpecGet == InitGet /\ [][NextGet]_vars

(* ---------------------------- GET: claims ----------------------------- *)
\* the categories createCarPipeline knows: "inventory" and the titleMap keys,
\* with or without their leading slash
KnownCategories ==
  {<<"inventory">>} \cup TitleMapKeys
  \cup {Tail(k) : k \in {x \in TitleMapKeys : x[1] = "/"}}

\* the referer path of the request in hand, without its trailing slash
RequestPath ==
  LET p == IF greq.referer.kind = "absent" THEN <<"/">>
           ELSE greq.referer.pathname
  IN IF p # <<>> /\ p[Len(p)] = "/" THEN SubSeq(p, 1, Len(p) - 1) ELSE p

\* C5: a category that is neither "inventory" nor a titleMap key is answered
\* 400 before the ordering lookup, createCarPipeline and Car.aggregate run,
\* and createCarPipeline only ever receives "inventory" or a titleMap category.
C5_CategoryGate ==
  /\ gstatus = 400 => orderLookups = 0 /\ aggCalls = 0 /\ ~ gargs.built
  /\ ( /\ gpc # "idle"
       /\ greq.referer.kind # "invalid"
       /\ \A i \in DOMAIN RequestPath : RequestPath[i] # "inventory"
       /\ RequestPath \notin TitleMapKeys )
     => gstatus = 400 /\ orderLookups = 0
  /\ gargs.built => gargs.pathname \in KnownCategories
  /\ orderLookups > 0 => gparsed.pathname \in KnownCategories

\* a request from a page of no category, answered 400
C5_Witness ==
  /\ gstatus = 400
  /\ greq.referer.kind = "url"
  /\ greq.referer.pathname = <<"/", "x">>
  /\ aggCalls = 0

InternalNumericFields ==
  {"numericPrice", "numericYear", "numericMileage", "numericSize",
   "numericWeight"}
RecognizedSortNames ==
  {<<"price">>, <<"year">>, <<"mileage">>, <<"size">>, <<"weight">>}

\* the field names the sortBy parameter of the request in hand carries
RequestSortNames ==
  IF Truthy(greq.sortBy)
    THEN LET parts == Split(greq.sortBy.s, ",")
         IN {Split(parts[i], ":")[1] : i \in DOMAIN parts}
    ELSE {}

\* C6: the sort specification handed to the query builder is never empty,
\* holds an internal numeric field for each recognized name and nothing for
\* any other name, and is exactly {createdAt: -1} when no name is recognized.
C6_SortSpec ==
  gargs.built =>
    /\ gargs.sortStage # <<>>
    /\ \A i \in DOMAIN gargs.sortStage :
         gargs.sortStage[i][1] \in InternalNumericFields \cup {"createdAt"}
    /\ RequestSortNames \cap RecognizedSortNames = {} =>
         gargs.sortStage = <<<<"createdAt", -1>>>>

\* n = ceil(a / b) for integers a, b: the least integer not below a / b
IsCeil(n, a, b) ==
  CASE b > 0 -> n * b >= a /\ (n - 1) * b < a
    [] b < 0 -> n * b <= a /\ (n - 1) * b > a
    [] OTHER -> FALSE

\* C7: in every 200 response totalPages = ceil(totalItems / limit), limit
\* being the requested page size (24 when none is given).
C7_TotalPages ==
  gstatus = 200 =>
    /\ ~ Truthy(greq.limit) => gbody.limit = Num(DefaultLimit)
    /\ gbody.limit.k = "num"
    /\ gbody.totalPages.k = "num"
    /\ IsCeil(gbody.totalPages.v, gbody.totalItems, gbody.limit.v)

\* C8: an empty filtered set is answered 200 with no data, totalItems 0,
\* totalPages 0 and priceRange {min: 0, max: 0}.
C8_EmptyResult ==
  gstatus = 200 /\ gmatched = {} =>
    /\ gbody.data = <<>>
    /\ gbody.totalItems = 0
    /\ gbody.totalPages = Num(0)
    /\ gbody.priceRange = [min |-> 0, max |-> 0]

\* C9: no step of a GET request changes the listing collection, the ordering
\* record or the file store, and the aggregation is issued at most once.
C9_ReadOnly ==
  [][/\ cars' = cars
     /\ files' = files
     /\ ordering' = ordering
     /\ aggCalls' <= 1]_vars

\* a request whose aggregation failed: answered 500 after a single call, the
\* stores still holding their listings and files
C9_Witness ==
  /\ gstatus = 500
  /\ aggCalls = 1
  /\ cars # {}
  /\ files # {}

\* whether a group of the details parameter has text right after its first
\* colon
HasValues(g) ==
  \E i \in DOMAIN g :
    /\ g[i] = ":"
    /\ \A j \in 1..(i - 1) : g[j] # ":"
    /\ i < Len(g)
    /\ g[i + 1] # ":"

\* the text of a group before its first colon
NameOf(g) ==
  IF \E i \in DOMAIN g : g[i] = ":"
    THEN SubSeq(g, 1, (CHOOSE i \in DOMAIN g :
                         g[i] = ":" /\ \A j \in 1..(i - 1) : g[j] # ":") - 1)
    ELSE g

====
